---- MODULE Spec2Model ----
(***************************************************************************)
(* Model of src/app.py: the ingestion script that reconciles a Pinecone    *)
(* index with the embedding dimension, waits for it to be ready, upserts   *)
(* the embedded chunks and builds a LangChain vector store on top of it.   *)
(*                                                                         *)
(* The script is a straight line of remote calls.  A run r is a program    *)
(* counter pc[r] walking through these calls; the registry (the remote     *)
(* index-management service) and the index contents are shared by runs.    *)
(* A call that raises an exception the script does not catch ends the run  *)
(* (pc[r] = "failed", error[r] names the raising call).                    *)
(*                                                                         *)
(* Remote service, as the Pinecone API behaves:                            *)
(*   - create_index raises when the name already exists (409 conflict);    *)
(*   - a created index is not ready at once, it becomes ready later or     *)
(*     never;                                                              *)
(*   - upsert replaces the record with the same id, and raises when a      *)
(*     vector's length is not the index dimension;                         *)
(*   - PineconeVectorStore.from_documents embeds the documents again and   *)
(*     upserts them under fresh uuid4 ids, with the text in the metadata.  *)
(***************************************************************************)
EXTENDS Integers, Sequences, FiniteSets, TLC

VARIABLES
    registry,     \* remote: index name -> [dimension, ready], for existing names
    store,        \* remote: index name -> set of records [id, values, metadata]
    sdk_shape,    \* shape of the describe_index() response of the installed SDK
    EMBED_DIM,    \* app.py:35, len(sample_vec)
    documents,    \* app.py:27, the chunks, in ingestion order
    uuid,         \* number of uuid4 ids drawn so far by from_documents
    calls,        \* history: remote calls issued, [run, op, name, n]
    pc,           \* run -> position in the script
    existing,     \* run -> app.py:45/48, the listed names
    index_name,   \* run -> app.py:41/76/81
    create_new,   \* run -> app.py:53/77/82/85
    idx_dim,      \* run -> app.py:59..68
    polls,        \* run -> iterations of the loop at app.py:99 that saw not ready
    vectors,      \* run -> app.py:117
    to_upsert,    \* run -> app.py:119..122
    error,        \* run -> the call whose exception ended the run, "" if none
    written,      \* history: run -> ids the run wrote into its index
    final_count,  \* history: run -> record count of the run's index when it ended
    ready,        \* run -> app.py:101, what the last poll read
    n_create,     \* history: run -> create_index calls the run issued
    start_registry \* history: run -> name -> dimension of the registry at its start

vars == <<registry, store, sdk_shape, EMBED_DIM, documents, uuid, calls, pc,
          existing, index_name, create_new, idx_dim, polls, vectors, to_upsert,
          error, written, final_count, ready, n_create, start_registry>>

(***************************************************************************)
(* Bounds of the model.                                                    *)
(***************************************************************************)
MaxChunks == 2

\* A nominal deadline for the readiness wait, in seconds.  The script has
\* none; the model only counts polls up to a cap above the deadline.
Timeout == 2

POLL_INTERVAL == 1

\* The batch bound of the upsert, scaled down from the 100 records per call
\* of the design so that a corpus of MaxChunks chunks exceeds it.
BatchBound == 1

MaxPolls == (Timeout \div POLL_INTERVAL) + 2

Runs == {1, 2}

Dims == {2, 3}

None == -1

requested_index_name == "tester-index"

AltName == requested_index_name \o "-v2"

IndexNames == {requested_index_name, AltName}

SdkShapes == {"object", "dict", "object_nodim", "dict_nodim"}

(***************************************************************************)
(* Pure parts of the script.                                               *)
(***************************************************************************)

\* f"doc-{i}", i counted from 0 (app.py:113)
DocId(i) == "doc-" \o ToString(i)

\* a slip in the range: ids counted from 1
IdsFromOne(n) == [i \in 1..n |-> DocId(i)]

\* ids = [f"doc-{i}" for i in range(len(texts))]
Ids(n) == [i \in 1..n |-> DocId(i - 1)]

\* a uuid4 drawn by the vector store: fresh, never of the form doc-i
UuidId(k) == "uuid-" \o ToString(k)

\* the chunk source: n chunks, each with its text and its metadata
Corpus(n) ==
    [i \in 1..n |-> [page_content |-> "text-" \o ToString(i),
                     metadata     |-> [source |-> "file-" \o ToString(i)]]]

\* the embedding of one text: a vector of the model's dimension
Embed(text, dim) == [j \in 1..dim |-> text]

\* embed_documents returning k vectors for the texts (k = Len(texts) when the
\* provider keeps its contract)
EmbedDocuments(texts, k, dim) ==
    [i \in 1..k |-> Embed(IF i <= Len(texts) THEN texts[i] ELSE "extra", dim)]

Min(a, b) == IF a <= b THEN a ELSE b

\* for _id, vec, doc in zip(ids, vectors, documents): ... (app.py:119..122)
\* zip stops at the shortest of its arguments.
BuildUpsert(ids, vecs, docs) ==
    [i \in 1..Min(Len(ids), Min(Len(vecs), Len(docs))) |->
        [id |-> ids[i], values |-> vecs[i], metadata |-> docs[i].metadata]]

\* the describe_index() response for a registry entry, in the SDK's shape
DescribeResponse(entry, shape) ==
    [kind   |-> IF shape \in {"object", "object_nodim"} THEN "object" ELSE "dict",
     fields |-> IF shape \in {"object", "dict"}
                THEN [dimension |-> entry.dimension,
                      status    |-> [ready |-> entry.ready]]
                ELSE [status |-> [ready |-> entry.ready]]]

HasAttr(info, f) == info.kind = "object" /\ f \in DOMAIN info.fields

IsDict(info) == info.kind = "dict"

DictGet(info, f) == IF f \in DOMAIN info.fields THEN info.fields[f] ELSE None

\* the probe of app.py:59..68
ProbeDimension(info) ==
    IF HasAttr(info, "dimension")
    THEN info.fields["dimension"]
    ELSE IF IsDict(info) THEN DictGet(info, "dimension") ELSE None

\* a slip: the flag is read under a key the response does not have
ReadReadyWrongKey(info) ==
    IF HasAttr(info, "state")
    THEN info.fields["state"].ready
    ELSE IF "state" \in DOMAIN info.fields
         THEN info.fields["state"].ready
         ELSE FALSE

\* the readiness read of app.py:101
ReadReady(info) ==
    IF HasAttr(info, "status")
    THEN info.fields["status"].ready
    ELSE IF "status" \in DOMAIN info.fields
         THEN info.fields["status"].ready
         ELSE FALSE

\* a slip: the mismatching index is taken as it is
ReconcileReuseOnMismatch(name, listed, info, dim) ==
    IF name \in listed
    THEN LET d == ProbeDimension(info) IN
         IF d # None
         THEN [index_name |-> name, create_new |-> FALSE, idx_dim |-> d]
         ELSE [index_name |-> name \o "-v2", create_new |-> TRUE, idx_dim |-> None]
    ELSE [index_name |-> name, create_new |-> TRUE, idx_dim |-> None]

\* a slip: the mismatch sets the flag and forgets the new name
ReconcileKeepName(name, listed, info, dim) ==
    IF name \in listed
    THEN LET d == ProbeDimension(info) IN
         IF d # None
         THEN [index_name |-> name, create_new |-> d # dim, idx_dim |-> d]
         ELSE [index_name |-> name \o "-v2", create_new |-> TRUE, idx_dim |-> None]
    ELSE [index_name |-> name, create_new |-> TRUE, idx_dim |-> None]

\* a slip: every listed index is replaced, matching or not
ReconcileNeverReuse(name, listed, info, dim) ==
    IF name \in listed
    THEN [index_name |-> name \o "-v2", create_new |-> TRUE,
          idx_dim |-> ProbeDimension(info)]
    ELSE [index_name |-> name, create_new |-> TRUE, idx_dim |-> None]

\* a slip: the else branch of app.py:83..85 is missing
ReconcileNoElse(name, listed, info, dim) ==
    IF name \in listed
    THEN LET d == ProbeDimension(info) IN
         IF d # None
         THEN IF d # dim
              THEN [index_name |-> name \o "-v2", create_new |-> TRUE,  idx_dim |-> d]
              ELSE [index_name |-> name,          create_new |-> FALSE, idx_dim |-> d]
         ELSE [index_name |-> name \o "-v2", create_new |-> TRUE, idx_dim |-> None]
    ELSE [index_name |-> name, create_new |-> FALSE, idx_dim |-> None]

\* a slip: an index whose dimension cannot be read is taken as compatible
ReconcileTrustUnknown(name, listed, info, dim) ==
    IF name \in listed
    THEN LET d == ProbeDimension(info) IN
         IF d # None /\ d # dim
         THEN [index_name |-> name \o "-v2", create_new |-> TRUE,  idx_dim |-> d]
         ELSE [index_name |-> name,          create_new |-> FALSE, idx_dim |-> d]
    ELSE [index_name |-> name, create_new |-> TRUE, idx_dim |-> None]

\* app.py:53..86, given the listed names and the describe response of the
\* requested index (read only when the name is listed)
Reconcile(name, listed, info, dim) ==
    IF name \in listed
    THEN LET d == ProbeDimension(info) IN
         IF d # None
         THEN IF d # dim
              THEN [index_name |-> name \o "-v2", create_new |-> TRUE,  idx_dim |-> d]
              ELSE [index_name |-> name,          create_new |-> FALSE, idx_dim |-> d]
         ELSE [index_name |-> name \o "-v2", create_new |-> TRUE, idx_dim |-> None]
    ELSE [index_name |-> name, create_new |-> TRUE, idx_dim |-> None]

\* the remote upsert: a record replaces the stored record with its id
UpsertInto(S, recs) ==
    {x \in S : \A i \in 1..Len(recs) : recs[i].id # x.id}
        \cup {recs[i] : i \in 1..Len(recs)}

RecIds(recs) == {recs[i].id : i \in 1..Len(recs)}

\* the records from_documents builds: fresh ids k+1.., text added to metadata
StoreRecords(docs, k, dim) ==
    [i \in 1..Len(docs) |->
        [id       |-> UuidId(k + i),
         values   |-> Embed(docs[i].page_content, dim),
         metadata |-> [source |-> docs[i].metadata.source,
                       text   |-> docs[i].page_content]]]

Call(r, op, name, n) == [run |-> r, op |-> op, name |-> name, n |-> n]

\* the names of a registry with their dimensions
DimensionsOf(reg) == [n \in DOMAIN reg |-> reg[n].dimension]

(***************************************************************************)
(* The state after app.py:1..41: documents loaded and split, the embedding *)
(* dimension detected from the sample, index_name = requested_index_name.  *)
(* The registry holds any of the two names, with any dimension, ready or   *)
(* not; the indexes have no records yet.                                   *)
(***************************************************************************)
Init ==
    /\ \E S \in SUBSET IndexNames :
           registry \in [S -> [dimension : Dims, ready : BOOLEAN]]
    /\ store = [n \in IndexNames |-> {}]
    /\ sdk_shape \in SdkShapes
    /\ EMBED_DIM \in Dims
    /\ \E n \in 0..MaxChunks : documents = Corpus(n)
    /\ uuid = 0
    /\ calls = {}
    /\ pc = [r \in Runs |-> IF r = 1 THEN "list" ELSE "idle"]
    /\ existing = [r \in Runs |-> {}]
    /\ index_name = [r \in Runs |-> requested_index_name]
    /\ create_new = [r \in Runs |-> FALSE]
    /\ idx_dim = [r \in Runs |-> None]
    /\ polls = [r \in Runs |-> 0]
    /\ vectors = [r \in Runs |-> <<>>]
    /\ to_upsert = [r \in Runs |-> <<>>]
    /\ error = [r \in Runs |-> ""]
    /\ written = [r \in Runs |-> {}]
    /\ final_count = [r \in Runs |-> 0]
    /\ ready = [r \in Runs |-> FALSE]
    /\ n_create = [r \in Runs |-> 0]
    /\ start_registry = [r \in Runs |-> DimensionsOf(registry)]

\* a slip: the exception is caught and logged, the script stays where it is
RaiseLogged(r, what) ==
    /\ error' = [error EXCEPT ![r] = what]
    /\ UNCHANGED pc

\* an exception nothing catches: the script ends at the raising call
Raise(r, what) ==
    /\ pc' = [pc EXCEPT ![r] = "failed"]
    /\ error' = [error EXCEPT ![r] = what]

Goto(r, where) ==
    /\ pc' = [pc EXCEPT ![r] = where]
    /\ UNCHANGED error

\* app.py:44..50: list the indexes; a failure is caught and reads as no index
ListIndexes(r) ==
    /\ pc[r] = "list"
    /\ \E ok \in BOOLEAN :
           existing' = [existing EXCEPT ![r] = IF ok THEN DOMAIN registry ELSE {}]
    /\ calls' = calls \cup {Call(r, "list_indexes", "", 0)}
    /\ Goto(r, "check")
    /\ UNCHANGED <<registry, store, sdk_shape, EMBED_DIM, documents, uuid,
                   index_name, create_new, idx_dim, polls, vectors, to_upsert,
                   written, final_count,
                   ready, n_create, start_registry>>

\* app.py:53..86: describe the requested index when it is listed (the call is
\* outside any try) and choose the index name and whether to create it
CheckIndex(r) ==
    /\ pc[r] = "check"
    /\ \E ok \in BOOLEAN :
         LET name     == index_name[r]
             listed   == name \in existing[r]
             answered == ok /\ name \in DOMAIN registry
             info     == IF name \in DOMAIN registry
                         THEN DescribeResponse(registry[name], sdk_shape)
                         ELSE [kind |-> "object", fields |-> [x \in {} |-> None]]
             res      == Reconcile(name, existing[r], info, EMBED_DIM)
         IN  IF listed /\ ~answered
             THEN /\ Raise(r, "describe_index:56")
                  /\ calls' = calls \cup {Call(r, "describe_index", name, 0)}
                  /\ UNCHANGED <<index_name, create_new, idx_dim>>
             ELSE /\ index_name' = [index_name EXCEPT ![r] = res.index_name]
                  /\ create_new' = [create_new EXCEPT ![r] = res.create_new]
                  /\ idx_dim' = [idx_dim EXCEPT ![r] = res.idx_dim]
                  /\ calls' = IF listed
                              THEN calls \cup {Call(r, "describe_index", name, 0)}
                              ELSE calls
                  /\ Goto(r, "create")
    /\ UNCHANGED <<registry, store, sdk_shape, EMBED_DIM, documents, uuid,
                   existing, polls, vectors, to_upsert, written, final_count,
                   ready, n_create, start_registry>>

\* a slip: the `if create_new` guard is missing
CreateIndexAlways(r) ==
    /\ pc[r] = "create"
    /\ \E ok \in BOOLEAN :
         LET name == index_name[r] IN
         /\ calls' = calls \cup {Call(r, "create_index", name, 0)}
         /\ n_create' = [n_create EXCEPT ![r] = @ + 1]
         /\ IF ok /\ name \notin DOMAIN registry
            THEN /\ registry' =
                       [n \in DOMAIN registry \cup {name} |->
                           IF n = name
                           THEN [dimension |-> EMBED_DIM, ready |-> FALSE]
                           ELSE registry[n]]
                 /\ store' = [store EXCEPT ![name] = {}]
                 /\ Goto(r, "wait")
            ELSE /\ Raise(r, IF name \in DOMAIN registry
                              THEN "create_index:exists"
                              ELSE "create_index")
                 /\ UNCHANGED <<registry, store>>
    /\ UNCHANGED <<sdk_shape, EMBED_DIM, documents, uuid, existing, index_name,
                   create_new, idx_dim, polls, vectors, to_upsert, written,
                   final_count, ready, start_registry>>

\* app.py:88..95: create the index when create_new is set; the call raises
\* when it fails, and it fails when the name is taken
CreateIndex(r) ==
    /\ pc[r] = "create"
    /\ IF create_new[r]
       THEN \E ok \in BOOLEAN :
              LET name == index_name[r] IN
              /\ calls' = calls \cup {Call(r, "create_index", name, 0)}
              /\ n_create' = [n_create EXCEPT ![r] = @ + 1]
              /\ IF ok /\ name \notin DOMAIN registry
                 THEN /\ registry' =
                            [n \in DOMAIN registry \cup {name} |->
                                IF n = name
                                THEN [dimension |-> EMBED_DIM, ready |-> FALSE]
                                ELSE registry[n]]
                      /\ store' = [store EXCEPT ![name] = {}]
                      /\ Goto(r, "wait")
                 ELSE /\ Raise(r, IF name \in DOMAIN registry
                                   THEN "create_index:exists"
                                   ELSE "create_index")
                      /\ UNCHANGED <<registry, store>>
       ELSE /\ Goto(r, "wait")
            /\ UNCHANGED <<registry, store, calls, n_create>>
    /\ UNCHANGED <<sdk_shape, EMBED_DIM, documents, uuid, existing, index_name,
                   create_new, idx_dim, polls, vectors, to_upsert, written,
                   final_count, ready, start_registry>>

\* a slip: the break is not under `if ready`
WaitReadyNoGate(r) ==
    /\ pc[r] = "wait"
    /\ \E ok \in BOOLEAN :
         LET name == index_name[r] IN
         /\ calls' = calls \cup {Call(r, "describe_index:100", name, 0)}
         /\ IF ok /\ name \in DOMAIN registry
            THEN /\ ready' = [ready EXCEPT ![r] =
                        ReadReady(DescribeResponse(registry[name], sdk_shape))]
                 /\ Goto(r, "embed")
            ELSE /\ Raise(r, "describe_index:100")
                 /\ UNCHANGED ready
    /\ UNCHANGED <<registry, store, sdk_shape, EMBED_DIM, documents, uuid,
                   existing, index_name, create_new, idx_dim, vectors, to_upsert,
                   written, final_count, n_create, start_registry, polls>>

\* app.py:99..105: one iteration of the loop: describe, leave when ready,
\* else sleep and go round again.  The loop has no deadline and the describe
\* call is outside any try.
WaitReady(r) ==
    /\ pc[r] = "wait"
    /\ \E ok \in BOOLEAN :
         LET name == index_name[r] IN
         /\ calls' = calls \cup {Call(r, "describe_index:100", name, 0)}
         /\ IF ok /\ name \in DOMAIN registry
            THEN LET seen == ReadReady(DescribeResponse(registry[name], sdk_shape))
                 IN  /\ ready' = [ready EXCEPT ![r] = seen]
                     /\ IF seen
                        THEN /\ Goto(r, "embed")
                             /\ UNCHANGED polls
                        ELSE /\ polls' = [polls EXCEPT ![r] =
                                               Min(polls[r] + 1, MaxPolls)]
                             /\ UNCHANGED <<pc, error>>
            ELSE /\ Raise(r, "describe_index:100")
                 /\ UNCHANGED <<polls, ready>>
    /\ UNCHANGED <<registry, store, sdk_shape, EMBED_DIM, documents, uuid,
                   existing, index_name, create_new, idx_dim, vectors, to_upsert,
                   written, final_count, n_create, start_registry>>

\* app.py:112..122: embed the texts and zip ids, vectors and documents
EmbedDocs(r) ==
    /\ pc[r] = "embed"
    /\ \E k \in 0..MaxChunks :
         LET texts == [i \in 1..Len(documents) |-> documents[i].page_content]
             ids   == Ids(Len(texts))
             vecs  == EmbedDocuments(texts, k, EMBED_DIM)
         IN  /\ vectors' = [vectors EXCEPT ![r] = vecs]
             /\ to_upsert' = [to_upsert EXCEPT ![r] = BuildUpsert(ids, vecs, documents)]
    /\ calls' = calls \cup {Call(r, "embed_documents", "", Len(documents))}
    /\ Goto(r, "upsert")
    /\ UNCHANGED <<registry, store, sdk_shape, EMBED_DIM, documents, uuid,
                   existing, index_name, create_new, idx_dim, polls, written,
                   final_count,
                   ready, n_create, start_registry>>

\* the remote side of a write: every vector has the index's dimension
Accepts(name, recs) ==
    /\ name \in DOMAIN registry
    /\ \A i \in 1..Len(recs) : Len(recs[i].values) = registry[name].dimension

\* app.py:125..127: one upsert call with all the records
Upsert(r) ==
    /\ pc[r] = "upsert"
    /\ \E ok \in BOOLEAN :
         LET name == index_name[r]
             recs == to_upsert[r]
         IN  /\ calls' = calls \cup {Call(r, "upsert", name, Len(recs))}
             /\ IF ok /\ Accepts(name, recs)
                THEN /\ store' = [store EXCEPT ![name] = UpsertInto(@, recs)]
                     /\ written' = [written EXCEPT ![r] = @ \cup RecIds(recs)]
                     /\ Goto(r, "vectorstore")
                ELSE /\ Raise(r, "upsert")
                     /\ UNCHANGED <<store, written>>
    /\ UNCHANGED <<registry, sdk_shape, EMBED_DIM, documents, uuid, existing,
                   index_name, create_new, idx_dim, polls, vectors, to_upsert,
                   final_count,
                   ready, n_create, start_registry>>

\* a slip: the vector store is built on the requested name, not the chosen one
FromDocumentsRequestedName(r) ==
    /\ pc[r] = "vectorstore"
    /\ \E ok \in BOOLEAN :
         LET name == requested_index_name
             recs == StoreRecords(documents, uuid, EMBED_DIM)
         IN  /\ calls' = calls \cup {Call(r, "from_documents", name, Len(recs))}
             /\ IF ok /\ Accepts(name, recs)
                THEN /\ store' = [store EXCEPT ![name] = UpsertInto(@, recs)]
                     /\ written' = [written EXCEPT ![r] = @ \cup RecIds(recs)]
                     /\ uuid' = uuid + Len(recs)
                     /\ Goto(r, "query")
                ELSE /\ Raise(r, "from_documents")
                     /\ UNCHANGED <<store, written, uuid>>
    /\ UNCHANGED <<registry, sdk_shape, EMBED_DIM, documents, existing,
                   index_name, create_new, idx_dim, polls, vectors, to_upsert,
                   final_count, ready, n_create, start_registry>>

\* app.py:132..137: PineconeVectorStore.from_documents writes the documents
\* into the same index again, under ids of its own
FromDocuments(r) ==
    /\ pc[r] = "vectorstore"
    /\ \E ok \in BOOLEAN :
         LET name == index_name[r]
             recs == StoreRecords(documents, uuid, EMBED_DIM)
         IN  /\ calls' = calls \cup {Call(r, "from_documents", name, Len(recs))}
             /\ IF ok /\ Accepts(name, recs)
                THEN /\ store' = [store EXCEPT ![name] = UpsertInto(@, recs)]
                     /\ written' = [written EXCEPT ![r] = @ \cup RecIds(recs)]
                     /\ uuid' = uuid + Len(recs)
                     /\ Goto(r, "query")
                ELSE /\ Raise(r, "from_documents")
                     /\ UNCHANGED <<store, written, uuid>>
    /\ UNCHANGED <<registry, sdk_shape, EMBED_DIM, documents, existing,
                   index_name, create_new, idx_dim, polls, vectors, to_upsert,
                   final_count,
                   ready, n_create, start_registry>>

\* app.py:139..141: the sample search; the script ends here
Query(r) ==
    /\ pc[r] = "query"
    /\ calls' = calls \cup {Call(r, "similarity_search", index_name[r], 0)}
    /\ final_count' = [final_count EXCEPT ![r] = Cardinality(store[index_name[r]])]
    /\ \E ok \in BOOLEAN :
         IF ok THEN Goto(r, "done") ELSE Raise(r, "similarity_search")
    /\ UNCHANGED <<registry, store, sdk_shape, EMBED_DIM, documents, uuid,
                   existing, index_name, create_new, idx_dim, polls, vectors,
                   to_upsert, written, ready, n_create, start_registry>>

Ended(r) == pc[r] \in {"done", "failed"}

\* the script is started again once the run before it has ended: a new
\* process, app.py:1..41 again, same corpus, same embedding model
StartRun(r) ==
    /\ pc[r] = "idle"
    /\ \A q \in Runs : q < r => Ended(q)
    /\ Goto(r, "list")
    /\ start_registry' = [start_registry EXCEPT ![r] = DimensionsOf(registry)]
    /\ UNCHANGED <<registry, store, sdk_shape, EMBED_DIM, documents, uuid, calls,
                   existing, index_name, create_new, idx_dim, polls, vectors,
                   to_upsert, written, final_count, ready, n_create>>

\* the remote service finishes initialising an index
IndexBecomesReady(n) ==
    /\ n \in DOMAIN registry
    /\ ~registry[n].ready
    /\ registry' = [registry EXCEPT ![n].ready = TRUE]
    /\ UNCHANGED <<store, sdk_shape, EMBED_DIM, documents, uuid, calls, pc,
                   existing, index_name, create_new, idx_dim, polls, vectors,
                   to_upsert, error, written, final_count,
                   ready, n_create, start_registry>>

Next ==
    \/ \E r \in Runs : ListIndexes(r)
    \/ \E r \in Runs : CheckIndex(r)
    \/ \E r \in Runs : CreateIndex(r)
    \/ \E r \in Runs : WaitReady(r)
    \/ \E r \in Runs : EmbedDocs(r)
    \/ \E r \in Runs : Upsert(r)
    \/ \E r \in Runs : FromDocuments(r)
    \/ \E r \in Runs : Query(r)
    \/ \E r \in Runs : StartRun(r)
    \/ \E n \in IndexNames : IndexBecomesReady(n)

Spec == Init /\ [][Next]_vars

(***************************************************************************)
(* The script when no remote call fails: no call raises and list_indexes   *)
(* returns the names of the registry.  The script keeps running (each of   *)
(* its steps is taken when it stays possible) and the service finishes     *)
(* initialising every index it holds.                                      *)
(***************************************************************************)
NoFailure ==
    \A r \in Runs :
        /\ error'[r] = ""
        /\ (pc[r] = "list" /\ pc'[r] = "check") => existing'[r] = DOMAIN registry

RunStep ==
    \E r \in Runs :
        \/ ListIndexes(r)
        \/ CheckIndex(r)
        \/ CreateIndex(r)
        \/ WaitReady(r)
        \/ EmbedDocs(r)
        \/ Upsert(r)
        \/ FromDocuments(r)
        \/ Query(r)
        \/ StartRun(r)

NextLive ==
    \/ \E r \in Runs : ListIndexes(r) /\ NoFailure
    \/ \E r \in Runs : CheckIndex(r) /\ NoFailure
    \/ \E r \in Runs : CreateIndex(r) /\ NoFailure
    \/ \E r \in Runs : WaitReady(r) /\ NoFailure
    \/ \E r \in Runs : EmbedDocs(r) /\ NoFailure
    \/ \E r \in Runs : Upsert(r) /\ NoFailure
    \/ \E r \in Runs : FromDocuments(r) /\ NoFailure
    \/ \E r \in Runs : Query(r) /\ NoFailure
    \/ \E r \in Runs : StartRun(r)
    \/ \E n \in IndexNames : IndexBecomesReady(n)

LiveSpec ==
    /\ Init
    /\ [][NextLive]_vars
    /\ WF_vars(RunStep /\ NoFailure)
    /\ \A n \in IndexNames : WF_vars(IndexBecomesReady(n))

(***************************************************************************)
(* Two executions of the script at the same time against one registry:     *)
(* two processes started together, each at app.py:44, same corpus, same    *)
(* embedding model.  Their remote calls interleave in any order.  The      *)
(* corpus is one chunk: the interleavings of interest are those of the     *)
(* registry calls.                                                         *)
(***************************************************************************)
InitConc ==
    /\ \E S \in SUBSET IndexNames :
           registry \in [S -> [dimension : Dims, ready : BOOLEAN]]
    /\ store = [n \in IndexNames |-> {}]
    /\ sdk_shape \in SdkShapes
    /\ EMBED_DIM \in Dims
    /\ documents = Corpus(1)
    /\ uuid = 0
    /\ calls = {}
    /\ pc = [r \in Runs |-> "list"]
    /\ existing = [r \in Runs |-> {}]
    /\ index_name = [r \in Runs |-> requested_index_name]
    /\ create_new = [r \in Runs |-> FALSE]
    /\ idx_dim = [r \in Runs |-> None]
    /\ polls = [r \in Runs |-> 0]
    /\ vectors = [r \in Runs |-> <<>>]
    /\ to_upsert = [r \in Runs |-> <<>>]
    /\ error = [r \in Runs |-> ""]
    /\ written = [r \in Runs |-> {}]
    /\ final_count = [r \in Runs |-> 0]
    /\ ready = [r \in Runs |-> FALSE]
    /\ n_create = [r \in Runs |-> 0]
    /\ start_registry = [r \in Runs |-> DimensionsOf(registry)]

NextConc ==
    \/ \E r \in Runs : ListIndexes(r)
    \/ \E r \in Runs : CheckIndex(r)
    \/ \E r \in Runs : CreateIndex(r)
    \/ \E r \in Runs : WaitReady(r)
    \/ \E r \in Runs : EmbedDocs(r)
    \/ \E r \in Runs : Upsert(r)
    \/ \E r \in Runs : FromDocuments(r)
    \/ \E r \in Runs : Query(r)
    \/ \E n \in IndexNames : IndexBecomesReady(n)

SpecConc == InitConc /\ [][NextConc]_vars

TypeOK ==
    /\ DOMAIN registry \subseteq IndexNames
    /\ EMBED_DIM \in Dims
    /\ uuid \in 0..(2 * MaxChunks)
    /\ \A r \in Runs : polls[r] \in 0..MaxPolls

(***************************************************************************)
(* Properties.                                                             *)
(***************************************************************************)

\* run r has left app.py:53..86 with a name and a flag
Reconciled(r) ==
    /\ pc[r] \notin {"idle", "list", "check"}
    /\ error[r] # "describe_index:56"

\* the describe response of this SDK carries a dimension the probe can read
Readable == sdk_shape \in {"object", "dict"}

\* run r listed the requested index and can read its dimension
SeesRequested(r) ==
    /\ requested_index_name \in existing[r]
    /\ requested_index_name \in DOMAIN registry
    /\ Readable

\* C1: no record is ever upserted into an index whose dimension differs from
\* the length of the record's vector: a run that is about to write, or has
\* written, addresses an index of the registry whose dimension is the length
\* of every vector it sends, whatever the registry was at the start and
\* whether or not the listing failed.
C1_UpsertDimensionMatches ==
    /\ \A r \in Runs :
         pc[r] \in {"upsert", "vectorstore"} =>
            /\ index_name[r] \in DOMAIN registry
            /\ \A i \in 1..Len(to_upsert[r]) :
                  Len(to_upsert[r][i].values) = registry[index_name[r]].dimension
            /\ registry[index_name[r]].dimension = EMBED_DIM
    /\ \A c \in calls :
         c.op \in {"upsert", "from_documents"} =>
            /\ c.name \in DOMAIN registry
            /\ registry[c.name].dimension = EMBED_DIM

\* C1 witness: the requested index mismatches, the run wrote into the alternate
W1_UpsertBesideMismatch ==
    /\ requested_index_name \in DOMAIN registry
    /\ registry[requested_index_name].dimension # EMBED_DIM
    /\ \E c \in calls : c.op = "upsert" /\ c.n > 0 /\ c.name = AltName
    /\ store[AltName] # {}

\* C2: the requested index is listed with a readable dimension D1 and the
\* embedding dimension is D2 # D1: the target name is not the existing
\* index's name and create_new is set.
C2_MismatchRenamesAndCreates ==
    \A r \in Runs :
        ( /\ Reconciled(r)
          /\ SeesRequested(r)
          /\ registry[requested_index_name].dimension # EMBED_DIM )
        => /\ index_name[r] # requested_index_name
           /\ create_new[r]

\* C2 witness: a run just reconciled against a readable mismatching index
W2_MismatchReconciled ==
    /\ pc[1] = "create"
    /\ SeesRequested(1)
    /\ registry[requested_index_name].dimension # EMBED_DIM
    /\ idx_dim[1] = registry[requested_index_name].dimension

\* C3: the requested index is listed and its readable dimension equals the
\* embedding dimension: the target is the requested name, create_new is false.
C3_MatchReuses ==
    \A r \in Runs :
        ( /\ Reconciled(r)
          /\ SeesRequested(r)
          /\ registry[requested_index_name].dimension = EMBED_DIM )
        => /\ index_name[r] = requested_index_name
           /\ ~create_new[r]

\* C3 witness: a run just reconciled against a readable matching index
W3_MatchReconciled ==
    /\ pc[1] = "create"
    /\ SeesRequested(1)
    /\ registry[requested_index_name].dimension = EMBED_DIM
    /\ idx_dim[1] = EMBED_DIM

\* C4: the requested name is absent from the listing: the target is the
\* requested name itself and create_new is set.
C4_AbsentCreatesRequested ==
    \A r \in Runs :
        (Reconciled(r) /\ requested_index_name \notin existing[r])
        => /\ index_name[r] = requested_index_name
           /\ create_new[r]

\* C4 witness: a run just reconciled against a registry without the name
W4_AbsentReconciled ==
    /\ pc[1] = "create"
    /\ requested_index_name \notin DOMAIN registry
    /\ requested_index_name \notin existing[1]

\* the registry holds the name with a dimension other than the embedding's
Incompatible(n) == n \in DOMAIN registry /\ registry[n].dimension # EMBED_DIM

\* C5: both the requested name and its -v2 alternate exist with dimensions
\* incompatible with the embedding dimension: reconciliation ends on a name
\* that is unused in the registry or names an index of the embedding
\* dimension, never on a name that exists with an incompatible dimension.
C5_CollisionsEndCompatible ==
    \A r \in Runs :
        ( /\ Reconciled(r)
          /\ pc[r] = "create"
          /\ requested_index_name \in existing[r]
          /\ AltName \in existing[r]
          /\ Incompatible(requested_index_name)
          /\ Incompatible(AltName) )
        => ~Incompatible(index_name[r])

\* the embedding step of run r returned one vector per chunk
Aligned(r) == Len(vectors[r]) = Len(documents)

\* index n holds some chunk under two ids
StoredTwice(n) ==
    \E x, y \in store[n] :
        x.id # y.id /\ x.values = y.values /\ x.metadata.source = y.metadata.source

\* C6: the pipeline run twice in sequence on the same corpus and registry:
\* the second run writes the ids the first wrote, the index holds as many
\* records after the second run as after the first, and no chunk is stored
\* under more than one id (the vector-store step's writes included).
C6_RerunIdempotent ==
    ( /\ pc[1] = "done" /\ pc[2] = "done"
      /\ Aligned(1) /\ Aligned(2)
      /\ index_name[1] = index_name[2] )
    => /\ written[2] = written[1]
       /\ final_count[2] = final_count[1]
       /\ ~StoredTwice(index_name[2])

\* C7: the readiness wait is bounded: after timeout / poll interval + 1 polls
\* that saw the index not ready, the wait has ended.
C7_WaitBounded ==
    \A r \in Runs : polls[r] <= (Timeout \div POLL_INTERVAL) + 1

\* C8: when the number of vectors differs from the number of chunks, the
\* run stops before the upsert and issues no upsert call.
C8_LengthMismatchStops ==
    \A r \in Runs :
        (pc[r] \notin {"idle", "list", "check", "create", "wait", "embed"}
            /\ ~Aligned(r))
        => /\ pc[r] = "failed"
           /\ \A c \in calls : ~(c.run = r /\ c.op = "upsert")

\* the ids of the first chunks, written out
ExpectedIds == <<"doc-0", "doc-1", "doc-2", "doc-3">>

\* C9: N chunks with N vectors: the upsert writes exactly N records; the
\* record of the i-th chunk (from 0) has id doc-i, the i-th vector, which is
\* the embedding of the i-th chunk, and the i-th chunk's metadata.
C9_UpsertRecordsInOrder ==
    \A r \in Runs :
        (pc[r] \in {"upsert", "vectorstore"} /\ Aligned(r)) =>
           /\ Len(to_upsert[r]) = Len(documents)
           /\ \A i \in 1..Len(documents) :
                 /\ to_upsert[r][i].id = ExpectedIds[i]
                 /\ to_upsert[r][i].values = vectors[r][i]
                 /\ to_upsert[r][i].values =
                        Embed(documents[i].page_content, EMBED_DIM)
                 /\ to_upsert[r][i].metadata = documents[i].metadata
           /\ pc[r] = "vectorstore" =>
                 /\ Call(r, "upsert", index_name[r], Len(documents)) \in calls
                 /\ written[r] = {ExpectedIds[i] : i \in 1..Len(documents)}
                 /\ \A i \in 1..Len(documents) :
                       to_upsert[r][i] \in store[index_name[r]]

\* C9 witness: a run has upserted a corpus of two or more chunks
W9_CorpusUpserted ==
    /\ pc[1] = "vectorstore"
    /\ Len(documents) >= 2
    /\ Aligned(1)
    /\ Cardinality(store[index_name[1]]) = Len(documents)

\* C10: a failure of list_indexes or of describe_index during reconciliation
\* never ends the run.
C10_RegistryErrorsNotFatal ==
    \A r \in Runs : error[r] # "describe_index:56"

\* the calls the script addresses to its ingestion target
TargetOps ==
    {"create_index", "describe_index:100", "upsert", "from_documents",
     "similarity_search"}

\* C11: one index is the ingestion target of a run: every remote call after
\* reconciliation (create, readiness describe, upsert, vector-store write,
\* query) is addressed to the run's index_name, and index_name does not
\* change once reconciliation has finished.
C11_OneTarget ==
    /\ [](\A c \in calls : c.op \in TargetOps => c.name = index_name[c.run])
    /\ [][\A r \in Runs : Reconciled(r) => index_name'[r] = index_name[r]]_vars

\* C11 witness: a run that chose the alternate name addressed all five calls
\* to it and ended
W11_AllCallsToAlternate ==
    /\ pc[1] = "done"
    /\ index_name[1] = AltName
    /\ \A op \in TargetOps : \E c \in calls : c.run = 1 /\ c.op = op /\ c.name = AltName

\* C12: the readiness wait is a gate: a run that is past the wait, or has
\* issued a write, has had a describe of its index answer ready = true; a run
\* whose wait failed has issued no write.
C12_ReadinessGate ==
    \A r \in Runs :
       /\ ( \/ pc[r] \in {"embed", "upsert", "vectorstore", "query", "done"}
            \/ \E c \in calls : c.run = r /\ c.op \in {"upsert", "from_documents"} )
          => /\ ready[r]
             /\ Call(r, "describe_index:100", index_name[r], 0) \in calls
             /\ index_name[r] \in DOMAIN registry
             /\ registry[index_name[r]].ready
       /\ error[r] = "describe_index:100"
          => \A c \in calls : c.run = r => c.op \notin {"upsert", "from_documents"}

\* C12 witness: a run polled an index that was not ready, then upserted
W12_UpsertAfterWaiting ==
    /\ polls[1] > 0
    /\ \E c \in calls : c.run = 1 /\ c.op = "upsert" /\ c.n > 0

\* run q created its index: its create_index call succeeded
Created(q) ==
    /\ create_new[q]
    /\ n_create[q] = 1
    /\ pc[q] \notin {"idle", "list", "check", "create"}
    /\ error[q] \notin {"create_index", "create_index:exists"}

\* C13: index creation is retry-safe without locking: when two runs with the
\* same requested name and embedding dimension interleave (both list before
\* either creates) and one of them has created the index, the other does not
\* fail on its own create of that name: neither run fails and both keep the
\* same target.
C13_ConcurrentCreateSafe ==
    \A q, r \in Runs :
        (q # r /\ Created(q) /\ index_name[r] = index_name[q])
        => error[r] # "create_index:exists"

\* C14: the requested index is listed but its dimension cannot be read from
\* the describe response (no attribute, no map entry): it is not taken as
\* equal; the run does not reuse the requested name, it selects the alternate
\* name and sets create_new.
C14_UnknownDimensionNotReused ==
    \A r \in Runs :
        ( /\ Reconciled(r)
          /\ requested_index_name \in existing[r]
          /\ ~Readable )
        => /\ idx_dim[r] = None
           /\ index_name[r] # requested_index_name
           /\ index_name[r] = AltName
           /\ create_new[r]

\* C14 witness: a run just reconciled against a listed index of the embedding
\* dimension whose describe response shows no dimension
W14_UnknownReconciled ==
    /\ pc[1] = "create"
    /\ requested_index_name \in existing[1]
    /\ ~Readable
    /\ registry[requested_index_name].dimension = EMBED_DIM

\* C15: a describe call that fails during the readiness wait does not end
\* the wait: no run ends on the exception of the polling describe.
C15_PollFailureRetried ==
    \A r \in Runs : error[r] # "describe_index:100"

\* C16: records are written in bounded batches: every upsert call carries at
\* most the batch bound of records, and the batches cover all the records.
C16_BatchesBounded ==
    /\ \A c \in calls : c.op = "upsert" => c.n <= BatchBound
    /\ \A r \in Runs :
          pc[r] = "vectorstore" => RecIds(to_upsert[r]) \subseteq written[r]

CreateErrors == {"create_index", "create_index:exists"}

\* the calls the script makes after create_index
AfterCreateOps ==
    {"describe_index:100", "embed_documents", "upsert", "from_documents",
     "similarity_search"}

\* C17: a failed create_index call is fatal: the run ends there, it issues no
\* readiness poll, no upsert and no query afterwards and takes no further
\* step, and the failed call leaves the registry and the index contents as
\* they were.
C17_CreateFailureFatal ==
    /\ [](\A r \in Runs :
            error[r] \in CreateErrors =>
               /\ pc[r] = "failed"
               /\ written[r] = {}
               /\ \A c \in calls : c.run = r => c.op \notin AfterCreateOps)
    /\ [][\A r \in Runs :
            (error[r] \notin CreateErrors /\ error'[r] \in CreateErrors)
               => (registry' = registry /\ store' = store)]_vars
    /\ [][\A r \in Runs :
            error[r] \in CreateErrors
               => (pc'[r] = pc[r] /\ error'[r] = error[r]
                     /\ n_create'[r] = n_create[r])]_vars

\* C17 witness: a run ended on a create_index that failed for a free name
W17_CreateFailed ==
    /\ pc[1] = "failed"
    /\ error[1] = "create_index"
    /\ n_create[1] = 1
    /\ index_name[1] \notin DOMAIN registry

\* C18: a run issues at most one create_index call, and none when the
\* requested index is listed with a readable dimension equal to the
\* embedding dimension; the names and dimensions of the registry are then
\* what they were when the run started.
C18_CreateAtMostOnce ==
    \A r \in Runs :
       /\ n_create[r] <= 1
       /\ ( /\ Reconciled(r)
            /\ SeesRequested(r)
            /\ registry[requested_index_name].dimension = EMBED_DIM )
          => /\ n_create[r] = 0
             /\ \A c \in calls : ~(c.run = r /\ c.op = "create_index")
             /\ DimensionsOf(registry) = start_registry[r]

\* C18 witness: a run reused the matching index, wrote into it and ended
W18_ReusedAndDone ==
    /\ pc[1] = "done"
    /\ SeesRequested(1)
    /\ registry[requested_index_name].dimension = EMBED_DIM
    /\ n_create[1] = 0
    /\ store[requested_index_name] # {}

\* run r has completed the upsert of app.py:127
UpsertDone(r) == pc[r] \in {"vectorstore", "query", "done"}

\* C19: when no remote call fails and the index becomes ready, a run that
\* waits for its index eventually leaves the readiness loop and completes
\* the upsert; the loop is left only on a poll that read ready = true from
\* an index that is ready.
C19_WaitEndsInUpsert ==
    /\ \A r \in Runs : (pc[r] = "wait") ~> UpsertDone(r)
    /\ [][\A r \in Runs :
            (pc[r] = "wait" /\ pc'[r] # "wait")
               => /\ pc'[r] = "embed"
                  /\ ready'[r]
                  /\ registry[index_name[r]].ready]_vars

\* C19 witness: a run polled an index that was not ready yet and went on to
\* complete the upsert
W19_WaitedThenUpserted ==
    /\ UpsertDone(1)
    /\ polls[1] > 0
    /\ create_new[1]
    /\ error[1] = ""

====
